---- MODULE Spec2Model ----
(***************************************************************************)
(* LeaseUp (src/app.py): the relational store, the booking workflow        *)
(* (book_unit, approve / reject / purge of booking requests), the lease,   *)
(* tenant and payment handlers, the accounts with their login session, the *)
(* dashboard aggregates and the init-db seeding, as a state machine over   *)
(* the committed rows of the store.                                        *)
(*                                                                         *)
(* Tables are functions from primary keys to rows.  A NULL column is 0     *)
(* (an integer) or the empty tuple (a date); dates are <<y, m, d>>.        *)
(* Form text is a sequence of character codes: a digit is its value 0..9,  *)
(* any other character is its ASCII code.                                  *)
(***************************************************************************)
EXTENDS Integers, Sequences, FiniteSets, TLC

VARIABLES
    units,          \* Unit rows: id -> [number, status]
    tenants,        \* Tenant rows: id -> [name, phone, email]
    leases,         \* Lease rows: id -> [unit_id, tenant_id, start_date, end_date, monthly_rent]
    requests,       \* LeaseRequest rows: id -> [unit_id, tenant_user_id, start_date, end_date, status]
    users,          \* User (administrator) rows: id -> [username, password_hash]
    tenant_users,   \* TenantUser rows: id -> [username, email, password_hash, phone]
    payments,       \* Payment rows: id -> [lease_id, amount]
    properties,     \* Property rows: id -> [name, address]
    maintenance_requests,   \* MaintenanceRequest rows: id -> [unit_id, description, status]
    emergency_contacts,     \* EmergencyContact rows: id -> [unit_identifier, name, phone]
    cookie,         \* the identifier that the browser's login session stores
    out,            \* what the last request computed and changed no row for:
                    \* the principal it restored or the page it rendered
    last,           \* the response of the last completed handler call
    sess,           \* per administrator session: the approve call in progress
    writer,         \* the session holding the store's write lock (0: nobody)
    res             \* per administrator session: outcome of its last approve call

db == <<units, tenants, leases, requests>>
accounts == <<users, tenant_users>>
conc == <<sess, writer, res>>
records == <<payments, properties, maintenance_requests, emergency_contacts>>
web == <<cookie, out>>
vars == <<units, tenants, leases, requests, users, tenant_users, last, sess, writer, res,
          payments, properties, maintenance_requests, emergency_contacts, cookie, out>>

(***************************************************************************)
(* Bounds of the model.                                                    *)
(***************************************************************************)
MaxLeases == 4
MaxTenants == 3
MaxRequests == 2
MaxTenantUsers == 3
MaxPayments == 2
MaxContacts == 5

(***************************************************************************)
(* Program constants.                                                      *)
(***************************************************************************)
NumUnits == 4
NoDate == <<>>
Dash == 45
Underscore == 95
AdminSessions == {1, 2}

Max(S) == CHOOSE m \in S : \A x \in S : x <= m

\* INTEGER PRIMARY KEY on SQLite: a new row gets the largest key plus one.
NextId(table) == IF DOMAIN table = {} THEN 1 ELSE Max(DOMAIN table) + 1

(***************************************************************************)
(* Text conversions.                                                       *)
(***************************************************************************)
IsDigit(c) == c \in 0..9

RECURSIVE DecimalValue(_)
DecimalValue(s) ==
    IF s = <<>> THEN 0
    ELSE 10 * DecimalValue(SubSeq(s, 1, Len(s) - 1)) + s[Len(s)]

\* the texts of digits that int() accepts: single underscores may stand
\* between two digits (no text here holds a sign or white space)
IsIntText(s) ==
    /\ s # <<>>
    /\ \A i \in 1..Len(s) :
          \/ IsDigit(s[i])
          \/ /\ s[i] = Underscore /\ i > 1 /\ i < Len(s)
             /\ IsDigit(s[i - 1]) /\ IsDigit(s[i + 1])

\* int(text): the decimal value, or -1 where Python raises.
int(s) == IF IsIntText(s) THEN DecimalValue(SelectSeq(s, IsDigit)) ELSE -1

\* str(n) of a natural number, as in f'user_{self.id}'
RECURSIVE str(_)
str(n) == IF n < 10 THEN <<n>> ELSE str(n \div 10) \o <<n % 10>>

\* "c in text", and text.split(c, 1) of a text that holds c
Contains(s, c) == \E i \in 1..Len(s) : s[i] = c

SplitOnce(s, c) ==
    LET i == CHOOSE k \in 1..Len(s) : s[k] = c /\ \A j \in 1..(k - 1) : s[j] # c
    IN <<SubSeq(s, 1, i - 1), SubSeq(s, i + 1, Len(s))>>

\* text.startswith(prefix)
StartsWith(s, prefix) == Len(s) >= Len(prefix) /\ SubSeq(s, 1, Len(prefix)) = prefix

\* the words 'user', 'tenant' and 'foo' in character codes
UserWord == <<117, 115, 101, 114>>
TenantWord == <<116, 101, 110, 97, 110, 116>>
FooWord == <<102, 111, 111>>

IsLeap(y) == (y % 4 = 0 /\ y % 100 # 0) \/ y % 400 = 0

DaysInMonth(y, m) ==
    IF m = 2 THEN (IF IsLeap(y) THEN 29 ELSE 28)
    ELSE IF m \in {4, 6, 9, 11} THEN 30 ELSE 31

\* datetime.fromisoformat(text).date() for YYYY-MM-DD text; NoDate where it raises.
fromisoformat(s) ==
    IF /\ Len(s) = 10
       /\ s[5] = Dash /\ s[8] = Dash
       /\ \A i \in {1, 2, 3, 4, 6, 7, 9, 10} : IsDigit(s[i])
    THEN LET y == 1000 * s[1] + 100 * s[2] + 10 * s[3] + s[4]
             m == 10 * s[6] + s[7]
             d == 10 * s[9] + s[10]
         IN IF y >= 1 /\ m \in 1..12 /\ d >= 1 /\ d <= DaysInMonth(y, m)
            THEN <<y, m, d>> ELSE NoDate
    ELSE NoDate

(***************************************************************************)
(* Principals.                                                             *)
(***************************************************************************)
Anonymous == [cls |-> "AnonymousUserMixin", id |-> 0]

Principals ==
    {Anonymous}
    \cup {[cls |-> "User", id |-> i] : i \in DOMAIN users}
    \cup {[cls |-> "TenantUser", id |-> i] : i \in DOMAIN tenant_users}

\* get_id(): the text 'user_<id>' or 'tenant_<id>', the empty tuple for the
\* None of the anonymous user.
get_id(u) ==
    IF u.cls = "User" THEN UserWord \o <<Underscore>> \o str(u.id)
    ELSE IF u.cls = "TenantUser" THEN TenantWord \o <<Underscore>> \o str(u.id)
    ELSE <<>>

is_tenant_user(u) ==
    get_id(u) # <<>> /\ StartsWith(get_id(u), TenantWord \o <<Underscore>>)

is_any_user(u) == get_id(u) # <<>>

is_admin_user(u) ==
    get_id(u) # <<>> /\ StartsWith(get_id(u), UserWord \o <<Underscore>>)

is_authenticated(u) == u.cls # "AnonymousUserMixin"

(***************************************************************************)
(* Password hashes (werkzeug.security).  Passwords are strings; a hash     *)
(* holds the salt that was drawn and the digest of the salted password,    *)
(* which is one-way: nothing in the model reads a password out of it.      *)
(***************************************************************************)
Salts == {"salt-a", "salt-b"}

Digest(salt, password) == <<"scrypt", salt, password>>

\* generate_password_hash(password), with the salt it drew
generate_password_hash(password, salt) == [salt |-> salt, digest |-> Digest(salt, password)]

\* check_password_hash(pwhash, password)
check_password_hash(pwhash, password) == pwhash.digest = Digest(pwhash.salt, password)

(***************************************************************************)
(* The seeded store (init-db on an empty store).                           *)
(***************************************************************************)
Today == <<2025, 6, 15>>

\* date + timedelta(days=365), for a span that holds no 29 February
PlusDays365(d) == <<d[1] + 1, d[2], d[3]>>

SeedProperties ==
    (1 :> [name |-> "Greenfield Heights", address |-> "123 Main St"])
    @@ (2 :> [name |-> "Sunrise Residences", address |-> "456 Oak Ave"])
    @@ (3 :> [name |-> "Urban Plaza Apts", address |-> "789 Pine Blvd"])
    @@ (4 :> [name |-> "Riverside Towers", address |-> "321 Elm Way"])

\* one Unit per Property, "Room i" for the i-th; units[0] and units[3] are
\* set to occupied with the two leases
SeedUnits ==
    [u \in 1..NumUnits |->
        [number |-> u, status |-> IF u \in {1, 4} THEN "occupied" ELSE "vacant",
         property_id |-> u]]

SeedTenants ==
    (1 :> [name |-> "Juan Dela Cruz", phone |-> "09171234567", email |-> "juan@example.com"])
    @@ (2 :> [name |-> "Maria Santos", phone |-> "09187654321", email |-> "maria@example.com"])

SeedLeases ==
    (1 :> [unit_id |-> 1, tenant_id |-> 1, start_date |-> Today,
           end_date |-> PlusDays365(Today), monthly_rent |-> 5000])
    @@ (2 :> [unit_id |-> 4, tenant_id |-> 2, start_date |-> Today,
              end_date |-> PlusDays365(Today), monthly_rent |-> 6500])

\* one EmergencyContact per Unit: the first names the first Tenant, the
\* others a property manager
SeedEmergencyContacts ==
    [i \in 1..NumUnits |->
        IF i = 1
        THEN [unit_identifier |-> <<"Room", i>>, name |-> "Juan Dela Cruz",
              phone |-> "09171234567"]
        ELSE [unit_identifier |-> <<"Room", i>>, name |-> <<"Property Manager", i>>,
              phone |-> <<"0917123456", i>>]]

SeedMaintenanceRequests ==
    (1 :> [unit_id |-> NumUnits,
           description |-> "Leaky faucet reported in Room 4. Needs plumbing attention.",
           status |-> "open"])

SeedAdmin(salt) ==
    [username |-> "admin", password_hash |-> generate_password_hash("admin1234", salt)]

SeedUsers == (1 :> SeedAdmin("salt-a"))

SeedTenantUser(salt) ==
    [username |-> "tenant", email |-> "tenant@example.com",
     password_hash |-> generate_password_hash("tenant123", salt), phone |-> "None"]

SeedTenantUsers == (1 :> SeedTenantUser("salt-a"))

\* flask_login keeps no identifier for a browser that is not logged in
NoCookie == <<>>

NoOutput == [op |-> "none"]

Response(op, code, msg, n) == [op |-> op, code |-> code, msg |-> msg, n |-> n]

NoRow == [unit_id |-> 0, tenant_user_id |-> 0, start_date |-> NoDate,
          end_date |-> NoDate, status |-> ""]

\* A session with no approve call in progress.
IdleSession == [pc |-> "idle", request_id |-> 0, lease_req |-> NoRow, tenant_id |-> 0,
                new_tenant |-> FALSE, dirty |-> FALSE, set_unit |-> FALSE]

\* How an approve call ended: the request, the status it was loaded with, the
\* outcome and the statement reached.
Result(request_id, seen, outcome, at) ==
    [request_id |-> request_id, seen |-> seen, outcome |-> outcome, at |-> at]

NoResult == Result(0, "", "", "")

Init ==
    /\ units = SeedUnits
    /\ tenants = SeedTenants
    /\ leases = SeedLeases
    /\ requests = <<>>
    /\ users = SeedUsers
    /\ tenant_users = SeedTenantUsers
    /\ payments = <<>>
    /\ properties = SeedProperties
    /\ maintenance_requests = SeedMaintenanceRequests
    /\ emergency_contacts = SeedEmergencyContacts
    /\ cookie = NoCookie
    /\ out = NoOutput
    /\ last = Response("init-db", 0, "Initialized the database.", 0)
    /\ sess = [s \in AdminSessions |-> IdleSession]
    /\ writer = 0
    /\ res = [s \in AdminSessions |-> NoResult]

\* A handler that returns without writing.
Reply(op, code, msg) ==
    /\ last' = Response(op, code, msg, 0)
    /\ out' = NoOutput
    /\ UNCHANGED <<db, accounts, records, cookie, conc>>

\* @login_required on an anonymous caller: redirect to the login view.
LoginRedirect(op) == Reply(op, 302, "login")

(***************************************************************************)
(* Inputs of the handlers.                                                 *)
(***************************************************************************)
DateA == <<2, 0, 2, 5, Dash, 0, 7, Dash, 0, 1>>
DateB == <<2, 0, 2, 6, Dash, 0, 6, Dash, 3, 0>>
BadDate == <<2, 0, 2, 5, Dash, 1, 3, Dash, 0, 1>>

\* book_unit forms: unit_id, start_date and end_date
BookingForm(unit_id, start_date, end_date) ==
    [unit_id |-> unit_id, start_date |-> start_date, end_date |-> end_date]

\* unit_id "2", "3" (vacant when seeded), "1" (occupied when seeded), "5" (no
\* such unit), "-", "" and "0"; then a missing and an unparseable date
BookingForms ==
    {BookingForm(<<2>>, DateA, DateB), BookingForm(<<3>>, DateA, DateB),
     BookingForm(<<1>>, DateA, DateB), BookingForm(<<NumUnits + 1>>, DateA, DateB),
     BookingForm(<<Dash>>, DateA, DateB), BookingForm(<<>>, DateA, DateB),
     BookingForm(<<0>>, DateA, DateB),
     BookingForm(<<2>>, <<>>, DateB), BookingForm(<<2>>, DateA, <<>>),
     BookingForm(<<2>>, BadDate, DateB), BookingForm(<<2>>, DateA, BadDate)}

\* a form that passes every check of book_unit while unit 2 is vacant
ValidBookingForms == {BookingForm(<<2>>, DateA, DateB)}

\* book_unit answers 302 or 403 before it reads request.form unless the
\* principal is a tenant account: only those are given every form
FormsReadFor(who) ==
    IF who.cls = "TenantUser" THEN BookingForms ELSE ValidBookingForms

\* request ids in the URL: every stored one and one that is not stored
RequestIds == 1..(MaxRequests + 1)

\* lease forms: unit_id, tenant_id, start_date, end_date and monthly_rent
LeaseForm(unit_id, tenant_id, start_date, end_date, monthly_rent) ==
    [unit_id |-> unit_id, tenant_id |-> tenant_id, start_date |-> start_date,
     end_date |-> end_date, monthly_rent |-> monthly_rent]

\* unit 2 and tenant 1 with no dates and no rent; a rent "-"; a start date
LeaseForms ==
    {LeaseForm(2, 1, <<>>, <<>>, <<>>),
     LeaseForm(2, 1, <<>>, <<>>, <<Dash>>), LeaseForm(2, 1, DateA, <<>>, <<>>)}

LeaseIds == 1..(MaxLeases + 1)

(***************************************************************************)
(* Booking workflow.                                                       *)
(***************************************************************************)
UnitExists(unit_id) == unit_id \in DOMAIN units

\* book_unit: "if not unit or unit.status != 'vacant'" is the refusal
UnitAvailable(unit_id) ==
    unit_id \in DOMAIN units /\ units[unit_id].status = "vacant"

NewLeaseRequest(unit_id, tenant_uid, start_date_obj, end_date_obj) ==
    [unit_id |-> unit_id, tenant_user_id |-> tenant_uid,
     start_date |-> start_date_obj, end_date |-> end_date_obj, status |-> "pending"]

book_unit(who, unit_id_text, start_date, end_date) ==
    IF ~is_authenticated(who) THEN LoginRedirect("book_unit")
    ELSE IF ~is_tenant_user(who)
    THEN Reply("book_unit", 403, "Only tenants can book units")
    ELSE LET unit_id == int(unit_id_text)
             start_date_obj == IF start_date # <<>> THEN fromisoformat(start_date) ELSE NoDate
             end_date_obj == IF end_date # <<>> THEN fromisoformat(end_date) ELSE NoDate
         IN IF unit_id = -1 THEN Reply("book_unit", 400, "Invalid unit id")
            ELSE IF \/ (start_date # <<>> /\ start_date_obj = NoDate)
                    \/ (end_date # <<>> /\ end_date_obj = NoDate)
            THEN Reply("book_unit", 400, "Invalid date format")
            ELSE IF unit_id = 0 \/ start_date = <<>> \/ end_date = <<>>
            THEN Reply("book_unit", 400, "All fields required")
            ELSE IF ~UnitAvailable(unit_id)
            THEN Reply("book_unit", 400, "Unit is not available")
            ELSE /\ writer = 0
                 /\ NextId(requests) <= MaxRequests
                 /\ requests' = requests @@
                        (NextId(requests) :>
                            NewLeaseRequest(unit_id, int(SplitOnce(get_id(who), Underscore)[2]),
                                            start_date_obj, end_date_obj))
                 /\ last' = Response("book_unit", 200, "Booking request created successfully", 0)
                 /\ out' = NoOutput
                 /\ UNCHANGED <<units, tenants, leases, accounts, records, cookie, conc>>

\* the Tenant rows that "Tenant.query.filter_by(email=...)" matches
TenantsByEmail(tens, email) == {t \in DOMAIN tens : tens[t].email = email}

\* the Tenant row that approval adds for a requester without one
TenantFromAccount(tenant_user) ==
    [name |-> tenant_user.username, phone |-> tenant_user.phone, email |-> tenant_user.email]

\* lease_req.status = 'approved'
MarkApproved(reqs, request_id) == [reqs EXCEPT ![request_id].status = "approved"]

UnitLeftAsIs(uns, unit_id) == uns

\* unit.status = 'occupied'
MarkOccupied(uns, unit_id) == [uns EXCEPT ![unit_id].status = "occupied"]

\* the Lease row that approval adds
ApprovedLease(lease_req, tenant_id) ==
    [unit_id |-> lease_req.unit_id, tenant_id |-> tenant_id,
     start_date |-> lease_req.start_date, end_date |-> lease_req.end_date,
     monthly_rent |-> 0]

approve_booking_request(who, request_id) ==
    IF ~is_authenticated(who) THEN LoginRedirect("approve_booking_request")
    ELSE IF ~is_admin_user(who)
    THEN Reply("approve_booking_request", 403, "Admin access only")
    ELSE IF request_id \notin DOMAIN requests
    THEN Reply("approve_booking_request", 302, "Booking request not found.")
    ELSE LET lease_req == requests[request_id] IN
         IF lease_req.tenant_user_id \notin DOMAIN tenant_users
               \/ lease_req.unit_id \notin DOMAIN units
         THEN Reply("approve_booking_request", 500, "AttributeError")
         ELSE LET tenant_user == tenant_users[lease_req.tenant_user_id]
                  found == TenantsByEmail(tenants, tenant_user.email)
              IN /\ writer = 0
                 /\ NextId(leases) <= MaxLeases
                 /\ \E tenant_id \in (IF found = {} THEN {NextId(tenants)} ELSE found) :
                       /\ tenant_id <= MaxTenants
                       /\ tenants' = IF found = {}
                                     THEN tenants @@ (tenant_id :> TenantFromAccount(tenant_user))
                                     ELSE tenants
                       /\ leases' = leases @@
                              (NextId(leases) :> ApprovedLease(lease_req, tenant_id))
                 /\ requests' = MarkApproved(requests, request_id)
                 /\ units' = MarkOccupied(units, lease_req.unit_id)
                 /\ last' = Response("approve_booking_request", 302, "Booking request approved!", 0)
                 /\ out' = NoOutput
                 /\ UNCHANGED <<accounts, records, cookie, conc>>

MarkAllRejected(reqs, request_id) ==
    [r \in DOMAIN reqs |-> [reqs[r] EXCEPT !.status = "rejected"]]

\* lease_req.status = 'rejected'
MarkRejected(reqs, request_id) == [reqs EXCEPT ![request_id].status = "rejected"]

reject_booking_request(who, request_id) ==
    IF ~is_authenticated(who) THEN LoginRedirect("reject_booking_request")
    ELSE IF ~is_admin_user(who)
    THEN Reply("reject_booking_request", 403, "Admin access only")
    ELSE IF request_id \notin DOMAIN requests
    THEN Reply("reject_booking_request", 302, "Booking request not found.")
    ELSE /\ writer = 0
         /\ requests' = MarkRejected(requests, request_id)
         /\ last' = Response("reject_booking_request", 302, "Booking request rejected.", 0)
         /\ out' = NoOutput
         /\ UNCHANGED <<units, tenants, leases, accounts, records, cookie, conc>>

NotApprovedRows(reqs) == {r \in DOMAIN reqs : reqs[r].status # "approved"}

\* LeaseRequest.query.filter(LeaseRequest.status == 'rejected')
RejectedRows(reqs) == {r \in DOMAIN reqs : reqs[r].status = "rejected"}

\* Query.delete(): the table without the rows
DeleteRows(table, rows) == [k \in DOMAIN table \ rows |-> table[k]]

purge_rejected_requests(who) ==
    IF ~is_authenticated(who) THEN LoginRedirect("purge_rejected_requests")
    ELSE IF ~is_admin_user(who)
    THEN Reply("purge_rejected_requests", 403, "Admin access only")
    ELSE \/ /\ writer = 0
            /\ LET deleted == Cardinality(RejectedRows(requests)) IN
                  last' = Response("purge_rejected_requests", 302, "Purged rejected booking request(s).", deleted)
            /\ out' = NoOutput
            /\ requests' = DeleteRows(requests, RejectedRows(requests))
            /\ UNCHANGED <<units, tenants, leases, accounts, records, cookie, conc>>
         \/ \* the delete or the commit raises: rollback
            Reply("purge_rejected_requests", 302, "Error purging rejected requests.")

(***************************************************************************)
(* approve_booking_request, statement by statement, in two administrator   *)
(* sessions.  Each call has its own ORM session over the one SQLite file:  *)
(* what it flushes stays private to it until its commit, and the first     *)
(* write takes the store's write lock, which the commit or the rollback    *)
(* releases.                                                               *)
(***************************************************************************)
FlushCommits(committed, pending) == pending

\* db.session.flush(): the committed rows stay as they are; the flushed rows
\* are in the open transaction only
Flushed(committed, pending) == committed

\* approve_booking_request as it would be with a "pending only" guard
ApproveLoadPendingOnly(s, request_id) ==
    /\ sess[s].pc = "idle"
    /\ IF request_id \notin DOMAIN requests \/ requests[request_id].status # "pending"
       THEN /\ res' = [res EXCEPT ![s] = Result(request_id, "", "not found", "idle")]
            /\ UNCHANGED <<sess, writer>>
       ELSE /\ sess' = [sess EXCEPT ![s] =
                    [IdleSession EXCEPT !.pc = "loaded", !.request_id = request_id,
                                        !.lease_req = requests[request_id]]]
            /\ res' = [res EXCEPT ![s] = NoResult]
            /\ UNCHANGED writer
    /\ UNCHANGED <<db, accounts, records, web, last>>

\* lines 312-315: LeaseRequest.query.get(request_id)
ApproveLoad(s, request_id) ==
    /\ sess[s].pc = "idle"
    /\ IF request_id \notin DOMAIN requests
       THEN /\ res' = [res EXCEPT ![s] = Result(request_id, "", "not found", "idle")]
            /\ UNCHANGED <<sess, writer>>
       ELSE /\ sess' = [sess EXCEPT ![s] =
                    [IdleSession EXCEPT !.pc = "loaded", !.request_id = request_id,
                                        !.lease_req = requests[request_id]]]
            /\ res' = [res EXCEPT ![s] = NoResult]
            /\ UNCHANGED writer
    /\ UNCHANGED <<db, accounts, records, web, last>>

\* the call ends in an exception: the session is rolled back
Rollback(s) ==
    /\ sess' = [sess EXCEPT ![s] = IdleSession]
    /\ writer' = IF writer = s THEN 0 ELSE writer
    /\ res' = [res EXCEPT ![s] =
            Result(sess[s].request_id, sess[s].lease_req.status, "error", sess[s].pc)]
    /\ UNCHANGED <<db, accounts, records, web, last>>

\* lines 318-326: the status is set, the Tenant query flushes it (an UPDATE
\* only when the loaded status differs), a missing Tenant is added and flushed
ApproveFlush(s) ==
    /\ sess[s].pc = "loaded"
    /\ LET lease_req == sess[s].lease_req
           dirty == lease_req.status # "approved"
       IN IF \/ lease_req.tenant_user_id \notin DOMAIN tenant_users
             \/ (dirty /\ sess[s].request_id \notin DOMAIN requests)
          THEN Rollback(s)
          ELSE LET tenant_user == tenant_users[lease_req.tenant_user_id]
                   found == TenantsByEmail(tenants, tenant_user.email)
                   writes == dirty \/ found = {}
               IN /\ writes => writer = 0
                  /\ writer' = IF writes THEN s ELSE writer
                  /\ \E tenant_id \in (IF found = {} THEN {NextId(tenants)} ELSE found) :
                        /\ tenant_id <= MaxTenants
                        /\ sess' = [sess EXCEPT ![s].pc = "flushed", ![s].dirty = dirty,
                                                ![s].tenant_id = tenant_id,
                                                ![s].new_tenant = (found = {})]
                        /\ tenants' = Flushed(tenants,
                               IF found = {}
                               THEN tenants @@ (tenant_id :> TenantFromAccount(tenant_user))
                               ELSE tenants)
                  /\ requests' = Flushed(requests,
                         IF dirty THEN MarkApproved(requests, sess[s].request_id)
                         ELSE requests)
                  /\ UNCHANGED <<units, leases, accounts, records, web, last, res>>

\* lines 329-340: the unit is read and set, the Lease is added to the session
ApproveStage(s) ==
    /\ sess[s].pc = "flushed"
    /\ IF sess[s].lease_req.unit_id \notin DOMAIN units
       THEN Rollback(s)
       ELSE /\ sess' = [sess EXCEPT ![s].pc = "staged",
                           ![s].set_unit = (units[sess[s].lease_req.unit_id].status # "occupied")]
            /\ UNCHANGED <<db, accounts, records, web, last, writer, res>>

\* line 341: db.session.commit()
ApproveCommit(s) ==
    /\ sess[s].pc = "staged"
    /\ writer \in {0, s}
    /\ NextId(leases) <= MaxLeases
    /\ LET lease_req == sess[s].lease_req IN
          /\ requests' = IF sess[s].dirty
                         THEN MarkApproved(requests, sess[s].request_id) ELSE requests
          /\ tenants' = IF sess[s].new_tenant
                        THEN tenants @@ (sess[s].tenant_id :>
                                 TenantFromAccount(tenant_users[lease_req.tenant_user_id]))
                        ELSE tenants
          /\ units' = IF sess[s].set_unit THEN MarkOccupied(units, lease_req.unit_id) ELSE units
          /\ leases' = leases @@ (NextId(leases) :> ApprovedLease(lease_req, sess[s].tenant_id))
          /\ res' = [res EXCEPT ![s] =
                 Result(sess[s].request_id, lease_req.status, "approved", "staged")]
    /\ sess' = [sess EXCEPT ![s] = IdleSession]
    /\ writer' = 0
    /\ UNCHANGED <<accounts, records, web, last>>

\* a statement of the call raises (the store is locked or unreachable)
ApproveAbort(s) ==
    /\ sess[s].pc \in {"loaded", "flushed", "staged"}
    /\ Rollback(s)

(***************************************************************************)
(* Leases.                                                                 *)
(***************************************************************************)
\* float(text or 0); -1 where Python raises
float(s) == IF s = <<>> THEN 0 ELSE int(s)

\* A Date column accepts None only from these handlers: they pass the form
\* text itself, which the column type refuses when the row is written.
DateColumnAccepts(s) == s = <<>>

lease_create(who, unit_id, tenant_id, start_date, end_date, monthly_rent) ==
    IF float(monthly_rent) = -1 THEN Reply("lease_create", 500, "ValueError")
    ELSE IF ~DateColumnAccepts(start_date) \/ ~DateColumnAccepts(end_date)
    THEN Reply("lease_create", 500, "StatementError")
    ELSE /\ writer = 0
         /\ NextId(leases) <= MaxLeases
         /\ leases' = leases @@
                (NextId(leases) :>
                    [unit_id |-> unit_id, tenant_id |-> tenant_id,
                     start_date |-> NoDate, end_date |-> NoDate,
                     monthly_rent |-> float(monthly_rent)])
         /\ units' = IF unit_id \in DOMAIN units THEN MarkOccupied(units, unit_id) ELSE units
         /\ last' = Response("lease_create", 302, "Lease created.", 0)
         /\ out' = NoOutput
         /\ UNCHANGED <<tenants, requests, accounts, records, cookie, conc>>

lease_edit(who, lid, unit_id, tenant_id, start_date, end_date, monthly_rent) ==
    IF lid \notin DOMAIN leases THEN Reply("lease_edit", 404, "Not Found")
    ELSE IF float(monthly_rent) = -1 THEN Reply("lease_edit", 500, "ValueError")
    ELSE IF ~DateColumnAccepts(start_date) \/ ~DateColumnAccepts(end_date)
    THEN Reply("lease_edit", 500, "StatementError")
    ELSE /\ writer = 0
         /\ leases' = [leases EXCEPT ![lid] =
                [unit_id |-> unit_id, tenant_id |-> tenant_id,
                 start_date |-> NoDate, end_date |-> NoDate,
                 monthly_rent |-> float(monthly_rent)]]
         /\ last' = Response("lease_edit", 302, "Lease updated.", 0)
         /\ out' = NoOutput
         /\ UNCHANGED <<units, tenants, requests, accounts, records, cookie, conc>>

\* u.status = 'vacant'
MarkVacant(uns, unit_id) == [uns EXCEPT ![unit_id].status = "vacant"]

\* lease_delete: the unit rows after "if u: u.status = 'vacant'"
UnitsAfterLeaseDelete(uns, lss, lid) ==
    IF lss[lid].unit_id \in DOMAIN uns THEN MarkVacant(uns, lss[lid].unit_id) ELSE uns

\* db.session.delete(lease): the Payment rows of the lease stay, with their
\* lease_id set to NULL (the relationship has no delete cascade)
PaymentsAfterLeaseDelete(pays, lid) ==
    [p \in DOMAIN pays |->
        IF pays[p].lease_id = lid THEN [pays[p] EXCEPT !.lease_id = 0] ELSE pays[p]]

lease_delete(who, lid) ==
    IF ~is_authenticated(who) THEN LoginRedirect("lease_delete")
    ELSE IF who.cls # "User" THEN Reply("lease_delete", 302, "Admin access only. You cannot delete leases.")
    ELSE IF lid \notin DOMAIN leases THEN Reply("lease_delete", 404, "Not Found")
    ELSE /\ writer = 0
         /\ units' = UnitsAfterLeaseDelete(units, leases, lid)
         /\ leases' = DeleteRows(leases, {lid})
         /\ payments' = PaymentsAfterLeaseDelete(payments, lid)
         /\ last' = Response("lease_delete", 302, "Lease deleted.", 0)
         /\ out' = NoOutput
         /\ UNCHANGED <<tenants, requests, accounts, properties, maintenance_requests,
                        emergency_contacts, cookie, conc>>

(***************************************************************************)
(* The booking workflow, one request at a time.                            *)
(***************************************************************************)
Next ==
    \/ \E who \in Principals : \E f \in FormsReadFor(who) :
          book_unit(who, f.unit_id, f.start_date, f.end_date)
    \/ \E who \in Principals, r \in RequestIds : approve_booking_request(who, r)
    \/ \E who \in Principals, r \in RequestIds : reject_booking_request(who, r)
    \/ \E who \in Principals : purge_rejected_requests(who)

Spec == Init /\ [][Next]_vars

(***************************************************************************)
(* All seven handlers that touch units, leases and booking requests.       *)
(***************************************************************************)
TenantPrincipals == {p \in Principals : p.cls = "TenantUser"}
AdminPrincipals == {p \in Principals : p.cls = "User"}

NextLeases ==
    \/ \E who \in TenantPrincipals, f \in ValidBookingForms :
          book_unit(who, f.unit_id, f.start_date, f.end_date)
    \/ \E who \in AdminPrincipals, r \in RequestIds : approve_booking_request(who, r)
    \/ \E who \in AdminPrincipals, r \in RequestIds : reject_booking_request(who, r)
    \/ \E who \in AdminPrincipals : purge_rejected_requests(who)
    \/ \E who \in Principals, f \in LeaseForms :
          lease_create(who, f.unit_id, f.tenant_id, f.start_date, f.end_date, f.monthly_rent)
    \/ \E who \in Principals, l \in LeaseIds, f \in LeaseForms :
          lease_edit(who, l, f.unit_id, f.tenant_id, f.start_date, f.end_date, f.monthly_rent)
    \/ \E who \in AdminPrincipals, l \in LeaseIds : lease_delete(who, l)

SpecLeases == Init /\ [][NextLeases]_vars

(***************************************************************************)
(* The booking workflow with two administrator sessions approving          *)
(* statement by statement.                                                 *)
(***************************************************************************)
NextConc ==
    \/ \E s \in AdminSessions, r \in RequestIds : ApproveLoad(s, r)
    \/ \E s \in AdminSessions : ApproveFlush(s)
    \/ \E s \in AdminSessions : ApproveStage(s)
    \/ \E s \in AdminSessions : ApproveCommit(s)
    \/ \E s \in AdminSessions : ApproveAbort(s)
    \/ \E who \in TenantPrincipals, f \in ValidBookingForms :
          book_unit(who, f.unit_id, f.start_date, f.end_date)
    \/ \E who \in AdminPrincipals, r \in DOMAIN requests : reject_booking_request(who, r)

SpecConc == Init /\ [][NextConc]_vars

(***************************************************************************)
(* Session restore and tenant signup.                                      *)
(***************************************************************************)
\* Model.query.get(uid) as a principal; flask_login takes the anonymous user
\* for the None of a missing row
QueryGet(table, cls, uid) ==
    IF uid \in DOMAIN table THEN [cls |-> cls, id |-> uid] ELSE Anonymous

\* load_user without the dispatch on the prefix: the numeric part is probed
\* in the administrator table, then in the tenant table
load_user_by_number(user_id) ==
    LET uid == IF Contains(user_id, Underscore)
               THEN int(SplitOnce(user_id, Underscore)[2]) ELSE int(user_id)
    IN IF uid = -1 THEN Anonymous
       ELSE IF uid \in DOMAIN users THEN QueryGet(users, "User", uid)
       ELSE QueryGet(tenant_users, "TenantUser", uid)

load_user(user_id) ==
    LET split == Contains(user_id, Underscore)
        prefix == SplitOnce(user_id, Underscore)[1]
        uid == int(SplitOnce(user_id, Underscore)[2])
    IN IF split /\ uid # -1 /\ prefix = UserWord
       THEN QueryGet(users, "User", uid)
       ELSE IF split /\ uid # -1 /\ prefix = TenantWord
       THEN QueryGet(tenant_users, "TenantUser", uid)
       ELSE \* no underscore, int() raised, or neither prefix: the whole text
            LET raw == int(user_id) IN
            IF raw = -1 THEN Anonymous
            ELSE IF raw \in DOMAIN users THEN QueryGet(users, "User", raw)
            ELSE QueryGet(tenant_users, "TenantUser", raw)

Loaded(user_id, user) == [op |-> "load_user", user_id |-> user_id, user |-> user]

\* a request arrives with user_id in its session: flask_login calls load_user
restore_session(user_id) ==
    /\ out' = Loaded(user_id, load_user(user_id))
    /\ UNCHANGED <<db, accounts, records, conc, cookie, last>>

\* the stored identifiers tried: with each prefix, without one, with one that
\* is neither, and with a part that is no number
SessionNumbers == 1..(MaxTenantUsers + 1)

SessionIds ==
    {UserWord \o <<Underscore>> \o str(n) : n \in SessionNumbers}
    \cup {TenantWord \o <<Underscore>> \o str(n) : n \in SessionNumbers}
    \cup {FooWord \o <<Underscore>> \o str(n) : n \in SessionNumbers}
    \cup {str(n) : n \in SessionNumbers}
    \cup {TenantWord \o <<Underscore>>, TenantWord, <<Underscore, 1>>,
          <<0, Underscore, 1>>, UserWord \o <<Underscore, Dash, 1>>}

SignupForm(username, email, password, confirm_password, phone) ==
    [username |-> username, email |-> email, password |-> password,
     confirm_password |-> confirm_password, phone |-> phone]

NewTenantUser(username, email, password, phone, salt) ==
    [username |-> username, email |-> email,
     password_hash |-> generate_password_hash(password, salt), phone |-> phone]

UsernameTaken(username) == \E t \in DOMAIN tenant_users : tenant_users[t].username = username

EmailTaken(email) == \E t \in DOMAIN tenant_users : tenant_users[t].email = email

\* the minimum length of a password
MinPasswordLen == 6

AnyPasswordLength(password) == FALSE

\* len(password) < 6
PasswordTooShort(password) == Len(password) < MinPasswordLen

tenant_signup(username, email, password, confirm_password, phone) ==
    IF username = "" \/ email = "" \/ password = ""
    THEN Reply("tenant_signup", 302, "Username, email, and password are required.")
    ELSE IF password # confirm_password
    THEN Reply("tenant_signup", 302, "Passwords do not match.")
    ELSE IF PasswordTooShort(password)
    THEN Reply("tenant_signup", 302, "Password must be at least 6 characters.")
    ELSE IF UsernameTaken(username)
    THEN Reply("tenant_signup", 302, "Username already exists.")
    ELSE IF EmailTaken(email)
    THEN Reply("tenant_signup", 302, "Email already registered.")
    ELSE /\ writer = 0
         /\ NextId(tenant_users) <= MaxTenantUsers
         /\ \E salt \in Salts :
               tenant_users' = tenant_users @@
                  (NextId(tenant_users) :> NewTenantUser(username, email, password, phone, salt))
         /\ last' = Response("tenant_signup", 302, "Account created! Please log in.", 0)
         /\ out' = NoOutput
         /\ UNCHANGED <<db, users, records, cookie, conc>>

\* signups that pass, for three new accounts
NewAccountForms ==
    {SignupForm("alice", "alice@example.com", "alice-pw", "alice-pw", "0917"),
     SignupForm("bob", "bob@example.com", "bob-pw1", "bob-pw1", "0918"),
     SignupForm("carol", "carol@example.com", "carol-pw", "carol-pw", "0919")}

NextRestore ==
    \/ \E user_id \in SessionIds : restore_session(user_id)
    \/ \E f \in NewAccountForms :
          tenant_signup(f.username, f.email, f.password, f.confirm_password, f.phone)

SpecRestore == Init /\ [][NextRestore]_vars

(***************************************************************************)
(* Login, logout and change of password, in one browser.                   *)
(***************************************************************************)
\* current_user of a request of the browser
current_user == IF cookie = NoCookie THEN Anonymous ELSE load_user(cookie)

\* Model.query.filter_by(username=username).first()
ByUsername(table, username) == {k \in DOMAIN table : table[k].username = username}

\* login_user(user): the session stores user.get_id()
login_user(user) == cookie' = get_id(user)

\* user.check_password(password) of a principal with an account
check_password(who, password) ==
    IF who.cls = "User" THEN check_password_hash(users[who.id].password_hash, password)
    ELSE check_password_hash(tenant_users[who.id].password_hash, password)

login(username, password) ==
    \/ \E u \in ByUsername(users, username) :
          /\ check_password_hash(users[u].password_hash, password)
          /\ login_user([cls |-> "User", id |-> u])
          /\ last' = Response("login", 302, "Logged in.", 0)
          /\ out' = NoOutput
          /\ UNCHANGED <<db, accounts, records, conc>>
    \/ /\ \A u \in ByUsername(users, username) :
             ~check_password_hash(users[u].password_hash, password)
       /\ Reply("login", 200, "Invalid credentials.")

tenant_login(username, password) ==
    \/ \E t \in ByUsername(tenant_users, username) :
          /\ check_password_hash(tenant_users[t].password_hash, password)
          /\ login_user([cls |-> "TenantUser", id |-> t])
          /\ last' = Response("tenant_login", 302, "Logged in as tenant.", 0)
          /\ out' = NoOutput
          /\ UNCHANGED <<db, accounts, records, conc>>
    \/ /\ \A t \in ByUsername(tenant_users, username) :
             ~check_password_hash(tenant_users[t].password_hash, password)
       /\ Reply("tenant_login", 200, "Invalid credentials.")

\* logout and tenant_logout: logout_user()
logout ==
    /\ cookie' = NoCookie
    /\ last' = Response("logout", 302, "Logged out.", 0)
    /\ out' = NoOutput
    /\ UNCHANGED <<db, accounts, records, conc>>

admin_autologin(pw) ==
    IF pw = "" THEN Reply("admin_autologin", 400, "Password required.")
    ELSE IF pw = "admin1234"
    THEN IF ByUsername(users, "admin") # {}
         THEN \E u \in ByUsername(users, "admin") :
                 /\ login_user([cls |-> "User", id |-> u])
                 /\ last' = Response("admin_autologin", 200, "ok", 0)
                 /\ out' = NoOutput
                 /\ UNCHANGED <<db, accounts, records, conc>>
         ELSE Reply("admin_autologin", 404, "Admin user not found.")
    ELSE Reply("admin_autologin", 401, "Incorrect password.")

\* u = User.query.get(current_user.id); u.set_password(new)
SetUserPassword(who, new, salt) ==
    /\ users' = [users EXCEPT ![who.id].password_hash = generate_password_hash(new, salt)]
    /\ UNCHANGED tenant_users

change_password(who, current, new, confirm) ==
    IF ~is_authenticated(who) THEN Reply("change_password", 500, "AttributeError")
    ELSE IF ~check_password(who, current)
    THEN Reply("change_password", 302, "Current password is incorrect.")
    ELSE IF new # confirm
    THEN Reply("change_password", 302, "New passwords do not match.")
    ELSE IF PasswordTooShort(new)
    THEN Reply("change_password", 302, "New password must be at least 6 characters.")
    ELSE IF who.id \notin DOMAIN users
    THEN Reply("change_password", 500, "AttributeError")
    ELSE /\ writer = 0
         /\ \E salt \in Salts : SetUserPassword(who, new, salt)
         /\ last' = Response("change_password", 302, "Password changed successfully.", 0)
         /\ out' = NoOutput
         /\ UNCHANGED <<db, records, cookie, conc>>

\* usernames and passwords typed into the forms
Usernames == {"admin", "tenant", "alice"}

Passwords == {"admin1234", "tenant123", "alice-pw", "new-pass", ""}

\* change_password forms: current_password, new_password, confirm_password
PasswordForm(current, new, confirm) == [current |-> current, new |-> new, confirm |-> confirm]

PasswordForms ==
    {PasswordForm("admin1234", "new-pass", "new-pass"),
     PasswordForm("tenant123", "new-pass", "new-pass"),
     PasswordForm("alice-pw", "new-pass", "new-pass"),
     PasswordForm("wrong-pw", "new-pass", "new-pass"),
     PasswordForm("admin1234", "new-pass", "other-pw"),
     PasswordForm("tenant123", "new-pass", "other-pw"),
     PasswordForm("admin1234", "short", "short"),
     PasswordForm("tenant123", "short", "short")}

\* signups: one that passes, then a missing username, email and password, a
\* confirmation that differs, a short password, a taken username and a taken
\* email
SignupForms ==
    {SignupForm("alice", "alice@example.com", "alice-pw", "alice-pw", "0917"),
     SignupForm("", "bob@example.com", "bob-pw1", "bob-pw1", "0918"),
     SignupForm("bob", "", "bob-pw1", "bob-pw1", "0918"),
     SignupForm("bob", "bob@example.com", "", "", "0918"),
     SignupForm("bob", "bob@example.com", "bob-pw1", "bob-pw2", "0918"),
     SignupForm("bob", "bob@example.com", "bob", "bob", "0918"),
     SignupForm("tenant", "bob@example.com", "bob-pw1", "bob-pw1", "0918"),
     SignupForm("bob", "tenant@example.com", "bob-pw1", "bob-pw1", "0918")}

\* book_unit forms that a check refuses whatever the units are
RefusedBookingForms ==
    {BookingForm(<<Dash>>, DateA, DateB), BookingForm(<<>>, DateA, DateB),
     BookingForm(<<2>>, <<>>, DateB), BookingForm(<<2>>, DateA, <<>>),
     BookingForm(<<2>>, BadDate, DateB), BookingForm(<<2>>, DateA, BadDate)}

NextAuth ==
    \/ \E username \in Usernames, password \in Passwords : login(username, password)
    \/ \E username \in Usernames, password \in Passwords : tenant_login(username, password)
    \/ logout
    \/ \E pw \in Passwords : admin_autologin(pw)
    \/ \E f \in SignupForms :
          tenant_signup(f.username, f.email, f.password, f.confirm_password, f.phone)
    \/ \E f \in PasswordForms : change_password(current_user, f.current, f.new, f.confirm)
    \/ \E f \in RefusedBookingForms \cup ValidBookingForms :
          book_unit(current_user, f.unit_id, f.start_date, f.end_date)

SpecAuth == Init /\ [][NextAuth]_vars

(***************************************************************************)
(* Tenants and payments.                                                   *)
(***************************************************************************)
NewTenant(name, phone, email) == [name |-> name, phone |-> phone, email |-> email]

tenant_create(who, name, phone, email) ==
    /\ writer = 0
    /\ NextId(tenants) <= MaxTenants
    /\ tenants' = tenants @@ (NextId(tenants) :> NewTenant(name, phone, email))
    /\ last' = Response("tenant_create", 302, "Tenant created.", 0)
    /\ out' = NoOutput
    /\ UNCHANGED <<units, leases, requests, accounts, records, cookie, conc>>

tenant_edit(who, tid, name, phone, email) ==
    IF tid \notin DOMAIN tenants THEN Reply("tenant_edit", 404, "Not Found")
    ELSE /\ writer = 0
         /\ tenants' = [tenants EXCEPT ![tid] = NewTenant(name, phone, email)]
         /\ last' = Response("tenant_edit", 302, "Tenant updated.", 0)
         /\ out' = NoOutput
         /\ UNCHANGED <<units, leases, requests, accounts, records, cookie, conc>>

\* db.session.delete(tenant): the Lease rows of the tenant stay, with their
\* tenant_id set to NULL (the relationship has no delete cascade)
LeasesAfterTenantDelete(lss, tid) ==
    [l \in DOMAIN lss |->
        IF lss[l].tenant_id = tid THEN [lss[l] EXCEPT !.tenant_id = 0] ELSE lss[l]]

tenant_delete(who, tid) ==
    IF ~is_authenticated(who) THEN LoginRedirect("tenant_delete")
    ELSE IF who.cls # "User"
    THEN Reply("tenant_delete", 302, "Admin access only. You cannot delete tenants.")
    ELSE IF tid \notin DOMAIN tenants THEN Reply("tenant_delete", 404, "Not Found")
    ELSE /\ writer = 0
         /\ tenants' = DeleteRows(tenants, {tid})
         /\ leases' = LeasesAfterTenantDelete(leases, tid)
         /\ last' = Response("tenant_delete", 302, "Tenant deleted successfully.", 0)
         /\ out' = NoOutput
         /\ UNCHANGED <<units, requests, accounts, records, cookie, conc>>

\* the Payment row: the lease_id text is stored in an INTEGER column, the
\* amount is float(text or 0)
NewPayment(lease_id, amount) == [lease_id |-> int(lease_id), amount |-> float(amount)]

payment_create(who, lease_id, amount) ==
    IF float(amount) = -1 THEN Reply("payment_create", 500, "ValueError")
    ELSE /\ writer = 0
         /\ NextId(payments) <= MaxPayments
         /\ payments' = payments @@ (NextId(payments) :> NewPayment(lease_id, amount))
         /\ last' = Response("payment_create", 302, "Payment logged.", 0)
         /\ out' = NoOutput
         /\ UNCHANGED <<db, accounts, properties, maintenance_requests, emergency_contacts,
                        cookie, conc>>

(***************************************************************************)
(* The dashboard aggregates.                                               *)
(***************************************************************************)
\* the name of a lease's missing tenant
NoName == "None"

\* (today.year - start.year) * 12 + (today.month - start.month), by whole
\* months: one less while the day of the month is not reached
MonthsElapsedByDay(today, start_date) ==
    LET m == (today[1] - start_date[1]) * 12 + (today[2] - start_date[2])
                 - (IF today[3] < start_date[3] THEN 1 ELSE 0)
    IN IF m > 0 THEN m ELSE 0

\* max(0, (today.year - l.start_date.year) * 12 + (today.month - l.start_date.month))
MonthsElapsed(today, start_date) ==
    LET m == (today[1] - start_date[1]) * 12 + (today[2] - start_date[2])
    IN IF m > 0 THEN m ELSE 0

\* l.payments: the Payment rows whose lease_id is the lease's id
PaymentsOf(l) == {p \in DOMAIN payments : payments[p].lease_id = l}

\* sum(p.amount for p in ps)
RECURSIVE SumAmounts(_)
SumAmounts(ps) ==
    IF ps = {} THEN 0
    ELSE LET p == CHOOSE q \in ps : TRUE IN payments[p].amount + SumAmounts(ps \ {p})

Balance(today, l) ==
    LET months == MonthsElapsed(today, leases[l].start_date)
        expected == months * leases[l].monthly_rent
        paid == SumAmounts(PaymentsOf(l))
    IN [expected |-> expected, paid |-> paid, balance |-> expected - paid]

\* balances: one entry for each lease that has a start date
Balances(today) ==
    [l \in {k \in DOMAIN leases : leases[k].start_date # NoDate} |-> Balance(today, l)]

\* hasattr(existing, 'id') of the dict kept for a unit: a dict has keys, and
\* no attribute 'id'
HasAttrId(existing) == FALSE

\* "not existing or (l.id and (not hasattr(existing, 'id') or l.id >
\* existing['lease_id']))"
Replaces(unit_tenants, unit_id, l) ==
    \/ unit_id \notin DOMAIN unit_tenants
    \/ /\ l # 0
       /\ (~HasAttrId(unit_tenants[unit_id]) \/ l > unit_tenants[unit_id].lease_id)

TenantName(l) ==
    IF leases[l].tenant_id \in DOMAIN tenants THEN tenants[leases[l].tenant_id].name ELSE NoName

\* the loop over the leases, in the order in which the query gave them
RECURSIVE UnitTenants(_, _)
UnitTenants(order, unit_tenants) ==
    IF order = <<>> THEN unit_tenants
    ELSE LET l == Head(order)
             unit_id == leases[l].unit_id
         IN IF Replaces(unit_tenants, unit_id, l)
            THEN UnitTenants(Tail(order),
                     [k \in DOMAIN unit_tenants \cup {unit_id} |->
                         IF k = unit_id THEN [tenant_name |-> TenantName(l), lease_id |-> l]
                         ELSE unit_tenants[k]])
            ELSE UnitTenants(Tail(order), unit_tenants)

\* {k: v['tenant_name'] for k, v in unit_tenants.items()}
TenantNames(unit_tenants) == [k \in DOMAIN unit_tenants |-> unit_tenants[k].tenant_name]

\* Lease.query.filter_by(unit_id=unit.id).order_by(Lease.id.desc()).first()
LeasesOfUnit(u) == {l \in DOMAIN leases : leases[l].unit_id = u}

UnitLatestRent ==
    [u \in DOMAIN units |->
        IF LeasesOfUnit(u) = {} THEN 0 ELSE leases[Max(LeasesOfUnit(u))].monthly_rent]

\* Lease.query.all() has no ORDER BY: the order of the rows is the store's
\* choice.  Two are tried: by ascending and by descending id.
RECURSIVE Ascending(_)
Ascending(S) ==
    IF S = {} THEN <<>>
    ELSE LET m == CHOOSE x \in S : \A y \in S : x <= y IN <<m>> \o Ascending(S \ {m})

RECURSIVE Descending(_)
Descending(S) == IF S = {} THEN <<>> ELSE <<Max(S)>> \o Descending(S \ {Max(S)})

QueryOrders(S) == {Ascending(S), Descending(S)}

Rendered(today, balances, unit_tenants, unit_latest_rent) ==
    [op |-> "dashboard", today |-> today, balances |-> balances,
     unit_tenants |-> unit_tenants, unit_latest_rent |-> unit_latest_rent]

dashboard(who, today, order) ==
    IF ~is_authenticated(who) THEN LoginRedirect("dashboard")
    ELSE /\ out' = Rendered(today, Balances(today),
                            TenantNames(UnitTenants(order, <<>>)), UnitLatestRent)
         /\ last' = Response("dashboard", 200, "dashboard.html", 0)
         /\ UNCHANGED <<db, accounts, records, conc, cookie>>

\* datetime.utcnow().date() at the calls of the dashboard: the day of the
\* seeding, then days of the third month after it (before, on and after the
\* day of the month of the seeding), then a day after the seeded leases ended
Todays == {Today, <<2025, 9, 1>>, <<2025, 9, 15>>, <<2025, 9, 30>>, <<2026, 9, 20>>}

\* lease forms: a lease for unit 1 with tenant 2 and the rent 7
DashLeaseForms == {LeaseForm(1, 2, <<>>, <<>>, <<7>>)}

\* payment forms: lease_id and amount; the amounts 3000 and 5000 for lease 1,
\* 5000 for lease 2, and the amounts "" and "-"
PaymentForm(lease_id, amount) == [lease_id |-> lease_id, amount |-> amount]

PaymentForms ==
    {PaymentForm(<<1>>, <<3, 0, 0, 0>>), PaymentForm(<<1>>, <<5, 0, 0, 0>>),
     PaymentForm(<<2>>, <<5, 0, 0, 0>>), PaymentForm(<<1>>, <<>>),
     PaymentForm(<<1>>, <<Dash>>)}

\* the seeded leases with payments, edits and deletes, and the dashboard on
\* each of the days
NextDash ==
    \/ \E who \in Principals, today \in Todays, order \in QueryOrders(DOMAIN leases) :
          dashboard(who, today, order)
    \/ \E who \in Principals, f \in PaymentForms : payment_create(who, f.lease_id, f.amount)
    \/ \E who \in Principals, l \in LeaseIds, f \in DashLeaseForms :
          lease_edit(who, l, f.unit_id, f.tenant_id, f.start_date, f.end_date, f.monthly_rent)
    \/ \E who \in AdminPrincipals, l \in LeaseIds : lease_delete(who, l)

SpecDash == Init /\ [][NextDash]_vars

(***************************************************************************)
(* The seven handlers that create, edit and delete leases, tenants and     *)
(* payments, with the dashboard.                                           *)
(***************************************************************************)
\* tenant forms: name, phone and email
TenantForm(name, phone, email) == [name |-> name, phone |-> phone, email |-> email]

TenantForms == {TenantForm("Ana Reyes", "0920", "ana@example.com")}

\* the ids in the URLs: a stored row to edit, another to delete, and an id
\* that no row has
EditedTenantIds == {1, MaxTenants + 1}
DeletedTenantIds == {2, MaxTenants + 1}
EditedLeaseIds == {2, MaxLeases + 1}
DeletedLeaseIds == {1, MaxLeases + 1}

RentPaymentForms == {PaymentForm(<<1>>, <<5, 0, 0, 0>>)}

\* callers that are no administrator
Visitors == {Anonymous} \cup TenantPrincipals

NextRecords ==
    \/ \E who \in Principals, order \in QueryOrders(DOMAIN leases) :
          dashboard(who, Today, order)
    \/ \E who \in Visitors, f \in RentPaymentForms :
          payment_create(who, f.lease_id, f.amount)
    \/ \E who \in Visitors, f \in TenantForms : tenant_create(who, f.name, f.phone, f.email)
    \/ \E who \in Visitors, t \in EditedTenantIds, f \in TenantForms :
          tenant_edit(who, t, f.name, f.phone, f.email)
    \/ \E who \in Principals, t \in DeletedTenantIds : tenant_delete(who, t)
    \/ \E who \in Visitors, f \in DashLeaseForms :
          lease_create(who, f.unit_id, f.tenant_id, f.start_date, f.end_date, f.monthly_rent)
    \/ \E who \in Visitors, l \in EditedLeaseIds, f \in DashLeaseForms :
          lease_edit(who, l, f.unit_id, f.tenant_id, f.start_date, f.end_date, f.monthly_rent)
    \/ \E who \in Principals, l \in DeletedLeaseIds : lease_delete(who, l)

SpecRecords == Init /\ [][NextRecords]_vars

(***************************************************************************)
(* The init-db command, from a store without tables, and the emergency     *)
(* contacts.                                                               *)
(***************************************************************************)
\* the rows given, added to the table under the next free keys
AppendRows(table, rows) ==
    LET base == NextId(table) - 1 IN
    table @@ [k \in {base + i : i \in DOMAIN rows} |-> rows[k - base]]

NoPropertyFound == TRUE

\* "if not Property.query.first()"
NoProperty == properties = <<>>

\* the seeded units, leases and maintenance request name the rows that the
\* same run added: p.id, units[0].id, units[3].id, tenants[0].id, tenants[1].id
UnitsOfProperties(p_base) ==
    [u \in DOMAIN SeedUnits |-> [SeedUnits[u] EXCEPT !.property_id = p_base + u]]

LeasesOfUnits(u_base, t_base) ==
    [l \in DOMAIN SeedLeases |->
        [SeedLeases[l] EXCEPT !.unit_id = u_base + SeedLeases[l].unit_id,
                              !.tenant_id = t_base + SeedLeases[l].tenant_id]]

MaintenanceOfUnits(u_base) ==
    [m \in DOMAIN SeedMaintenanceRequests |->
        [SeedMaintenanceRequests[m] EXCEPT !.unit_id = u_base + NumUnits]]

init_db ==
    /\ writer = 0
    /\ IF NoProperty
       THEN /\ properties' = AppendRows(properties, SeedProperties)
            /\ units' = AppendRows(units, UnitsOfProperties(NextId(properties) - 1))
            /\ tenants' = AppendRows(tenants, SeedTenants)
            /\ leases' = AppendRows(leases,
                             LeasesOfUnits(NextId(units) - 1, NextId(tenants) - 1))
            /\ emergency_contacts' = AppendRows(emergency_contacts, SeedEmergencyContacts)
            /\ maintenance_requests' =
                  AppendRows(maintenance_requests, MaintenanceOfUnits(NextId(units) - 1))
       ELSE UNCHANGED <<properties, units, tenants, leases, emergency_contacts,
                        maintenance_requests>>
    /\ IF ByUsername(users, "admin") = {}
       THEN \E salt \in Salts : users' = AppendRows(users, <<SeedAdmin(salt)>>)
       ELSE UNCHANGED users
    /\ IF ByUsername(tenant_users, "tenant") # {}
       THEN /\ UNCHANGED tenant_users
            /\ last' = Response("init-db", 0, "Initialized the database.", 0)
       ELSE IF EmailTaken("tenant@example.com")
       THEN /\ UNCHANGED tenant_users
            /\ last' = Response("init-db", 1, "IntegrityError", 0)
       ELSE /\ \E salt \in Salts :
                  tenant_users' = AppendRows(tenant_users, <<SeedTenantUser(salt)>>)
            /\ last' = Response("init-db", 0, "Initialized the database.", 0)
    /\ out' = NoOutput
    /\ UNCHANGED <<requests, payments, cookie, conc>>

NewContact(unit_identifier, name, phone) ==
    [unit_identifier |-> unit_identifier, name |-> name, phone |-> phone]

emergency_contact_create(unit_identifier, name, phone) ==
    /\ writer = 0
    /\ NextId(emergency_contacts) <= MaxContacts
    /\ emergency_contacts' = emergency_contacts @@
           (NextId(emergency_contacts) :> NewContact(unit_identifier, name, phone))
    /\ last' = Response("emergency_contact_create", 302, "Emergency contact added.", 0)
    /\ out' = NoOutput
    /\ UNCHANGED <<db, accounts, payments, properties, maintenance_requests, cookie, conc>>

emergency_contact_delete(cid) ==
    IF cid \notin DOMAIN emergency_contacts
    THEN Reply("emergency_contact_delete", 404, "Not Found")
    ELSE /\ writer = 0
         /\ emergency_contacts' = DeleteRows(emergency_contacts, {cid})
         /\ last' = Response("emergency_contact_delete", 302, "Emergency contact deleted.", 0)
         /\ out' = NoOutput
         /\ UNCHANGED <<db, accounts, payments, properties, maintenance_requests, cookie, conc>>

\* a store in which init-db has not yet created the tables
InitEmpty ==
    /\ units = <<>> /\ tenants = <<>> /\ leases = <<>> /\ requests = <<>>
    /\ users = <<>> /\ tenant_users = <<>>
    /\ payments = <<>> /\ properties = <<>>
    /\ maintenance_requests = <<>> /\ emergency_contacts = <<>>
    /\ cookie = NoCookie
    /\ out = NoOutput
    /\ last = Response("create_app", 0, "", 0)
    /\ sess = [s \in AdminSessions |-> IdleSession]
    /\ writer = 0
    /\ res = [s \in AdminSessions |-> NoResult]

\* db.create_all() runs in init-db only, in the run that adds the Property
\* rows, and no handler deletes a Property: the tables exist exactly when a
\* Property does.  Before that every query of a handler raises.
TablesCreated == properties # <<>>

NoSuchTable(op) == ~TablesCreated /\ Reply(op, 500, "OperationalError")

ContactForms == {NewContact(<<"Room", 2>>, "Ana Reyes", "0920")}

ContactIds == {1, MaxContacts + 1}

NextSeed ==
    \/ init_db
    \/ \E f \in NewAccountForms :
          /\ TablesCreated
          /\ tenant_signup(f.username, f.email, f.password, f.confirm_password, f.phone)
    \/ \E f \in ContactForms :
          /\ TablesCreated
          /\ emergency_contact_create(f.unit_identifier, f.name, f.phone)
    \/ \E cid \in ContactIds : TablesCreated /\ emergency_contact_delete(cid)
    \/ NoSuchTable("tenant_signup")

SpecSeed == InitEmpty /\ [][NextSeed]_vars

(***************************************************************************)
(* Properties.                                                             *)
(***************************************************************************)
Count(S) == Cardinality(S)

RequesterEmail(lease_req) == tenant_users[lease_req.tenant_user_id].email

\* every row of the old table is in the new one, unchanged
Kept(old, new) == DOMAIN old \subseteq DOMAIN new /\ \A k \in DOMAIN old : new[k] = old[k]

\* C1: an administrator's approval of a pending request leaves the unit
\* occupied, adds exactly one Lease (the request's unit and dates, rent 0, a
\* Tenant with the requester's email) and marks the request approved; the
\* Tenant table is unchanged when such a Tenant existed, else grows by one.
ApprovalEffect ==
    [][\A who \in Principals, r \in DOMAIN requests :
          (who.cls = "User" /\ requests[r].status = "pending"
                /\ approve_booking_request(who, r)) =>
             LET lease_req == requests[r]
                 added == DOMAIN leases' \ DOMAIN leases
             IN /\ units'[lease_req.unit_id].status = "occupied"
                /\ Kept(leases, leases') /\ Count(added) = 1
                /\ \A l \in added :
                      /\ leases'[l].unit_id = lease_req.unit_id
                      /\ leases'[l].tenant_id \in DOMAIN tenants'
                      /\ tenants'[leases'[l].tenant_id].email = RequesterEmail(lease_req)
                      /\ leases'[l].start_date = lease_req.start_date
                      /\ leases'[l].end_date = lease_req.end_date
                      /\ leases'[l].monthly_rent = 0
                /\ requests'[r].status = "approved"
                /\ Kept(tenants, tenants')
                /\ Count(DOMAIN tenants') =
                      IF \E t \in DOMAIN tenants : tenants[t].email = RequesterEmail(lease_req)
                      THEN Count(DOMAIN tenants) ELSE Count(DOMAIN tenants) + 1
      ]_vars

\* Two requests of the same account were approved: the second approval found
\* the Tenant that the first one created.
ApprovedTwice ==
    /\ last.op = "approve_booking_request" /\ last.msg = "Booking request approved!"
    /\ \E r1, r2 \in DOMAIN requests, l1, l2 \in DOMAIN leases :
          /\ r1 # r2 /\ l1 # l2
          /\ requests[r1].status = "approved" /\ requests[r2].status = "approved"
          /\ leases[l1].tenant_id = leases[l2].tenant_id
          /\ leases[l1].tenant_id \in DOMAIN tenants
          /\ tenants[leases[l1].tenant_id].email = RequesterEmail(requests[r1])
          /\ leases[l1].unit_id = requests[r1].unit_id
          /\ leases[l1].start_date = requests[r1].start_date
          /\ units[requests[r1].unit_id].status = "occupied"
    /\ Count({t \in DOMAIN tenants : tenants[t].email = "tenant@example.com"}) = 1

\* C2: book_unit by a tenant principal for a unit id that names no unit, or a
\* unit that is not vacant, answers 400 and leaves the booking requests as
\* they were: a book_unit step that answers anything else, or changes the
\* requests, is not such a call.
BookingRefused ==
    [][last'.op = "book_unit" =>
          \/ last'.code = 400 /\ requests' = requests
          \/ \A who \in Principals, f \in BookingForms :
                (who.cls = "TenantUser"
                      /\ (int(f.unit_id) \notin DOMAIN units
                            \/ units[int(f.unit_id)].status # "vacant")) =>
                   ~book_unit(who, f.unit_id, f.start_date, f.end_date)
      ]_vars

\* A booking was refused because the unit is occupied, with a request on file.
RefusedOccupied ==
    /\ last.op = "book_unit" /\ last.code = 400 /\ last.msg = "Unit is not available"
    /\ requests # <<>>
    /\ \E u \in DOMAIN units : units[u].status = "occupied"

\* C3: an approved request stays approved, and a rejected request stays
\* rejected until it is deleted.
StatusIsFinal ==
    [][\A r \in DOMAIN requests :
          /\ requests[r].status = "approved" =>
                (r \in DOMAIN requests' /\ requests'[r].status = "approved")
          /\ requests[r].status = "rejected" =>
                (r \notin DOMAIN requests' \/ requests'[r].status = "rejected")
      ]_vars

\* C4: an administrator's reject of an existing request changes that
\* request's status to rejected and nothing else: no other request, no Lease,
\* no Tenant and no Unit.
RejectFrame ==
    [][\A who \in Principals, r \in DOMAIN requests :
          (who.cls = "User" /\ reject_booking_request(who, r)) =>
             /\ requests' = [requests EXCEPT ![r].status = "rejected"]
             /\ leases' = leases /\ tenants' = tenants /\ units' = units
      ]_vars

\* A request was rejected after it had been approved, next to another request.
RejectedAfterApproval ==
    /\ last.op = "reject_booking_request" /\ last.msg = "Booking request rejected."
    /\ \E r, q \in DOMAIN requests :
          /\ requests[r].status = "rejected" /\ requests[q].status # "rejected"
          /\ \E l \in DOMAIN leases :
                leases[l].unit_id = requests[r].unit_id /\ leases[l].monthly_rent = 0
          /\ units[requests[r].unit_id].status = "occupied"

\* C5: a purge that succeeds deletes exactly the rejected requests, keeps the
\* pending and approved ones and every other table, and reports the number of
\* requests that were rejected.
PurgeEffect ==
    [][\A who \in Principals :
          (who.cls = "User" /\ purge_rejected_requests(who)
                /\ last'.msg = "Purged rejected booking request(s).") =>
             LET rejected == {r \in DOMAIN requests : requests[r].status = "rejected"} IN
             /\ DOMAIN requests' = DOMAIN requests \ rejected
             /\ \A r \in DOMAIN requests' : requests'[r] = requests[r]
             /\ leases' = leases /\ tenants' = tenants /\ units' = units
             /\ last'.n = Count(rejected)
      ]_vars

\* A purge deleted a rejected request and kept one that was not rejected.
PurgedSome ==
    /\ last.op = "purge_rejected_requests" /\ last.n >= 1
    /\ requests # <<>>

\* C6: a unit is occupied exactly when some Lease references it.
OccupiedIffLeased ==
    \A u \in DOMAIN units :
        units[u].status = "occupied" <=> \E l \in DOMAIN leases : leases[l].unit_id = u

\* C7: lease_delete by an administrator vacates the lease's unit when no other
\* Lease references the unit, and leaves an occupied unit occupied when
\* another Lease does.
LeaseDeleteVacates ==
    [][\A who \in Principals, l \in DOMAIN leases :
          (who.cls = "User" /\ lease_delete(who, l) /\ leases[l].unit_id \in DOMAIN units) =>
             LET u == leases[l].unit_id
                 others == {k \in DOMAIN leases \ {l} : leases[k].unit_id = u}
             IN /\ others = {} => units'[u].status = "vacant"
                /\ (others # {} /\ units[u].status = "occupied") =>
                      units'[u].status = "occupied"
      ]_vars

\* C8: approve, reject and purge called by a tenant principal, and book_unit
\* called by an administrator, answer 403 and change no BookingRequest, Lease,
\* Tenant or Unit.
RoleGate ==
    [][\A who \in Principals :
          (\/ /\ who.cls = "TenantUser"
              /\ \/ \E r \in RequestIds : approve_booking_request(who, r)
                 \/ \E r \in RequestIds : reject_booking_request(who, r)
                 \/ purge_rejected_requests(who)
           \/ /\ who.cls = "User"
              /\ \E f \in BookingForms : book_unit(who, f.unit_id, f.start_date, f.end_date))
          => (last'.code = 403 /\ db' = db)
      ]_vars

\* An approve call was denied while a pending and a rejected request were on file.
DeniedApprove ==
    /\ last.op = "approve_booking_request" /\ last.code = 403
    /\ \E r, q \in DOMAIN requests :
          requests[r].status = "pending" /\ requests[q].status = "rejected"

\* C9: every statement of an approve call before its commit, and a call that
\* ends in an error, leaves the committed rows as they are; the commit marks
\* the request approved (when it was loaded with another status), the unit
\* occupied and adds the Lease with its Tenant in one step.
ApprovalAllOrNothing ==
    [][\A s \in AdminSessions :
          (sess'[s] # sess[s] \/ res'[s] # res[s]) =>
             \/ db' = db
             \/ /\ sess[s].pc = "staged" /\ res'[s].outcome = "approved"
                /\ LET lease_req == sess[s].lease_req IN
                      /\ lease_req.status # "approved" =>
                            requests'[sess[s].request_id].status = "approved"
                      /\ units'[lease_req.unit_id].status = "occupied"
                      /\ \E l \in DOMAIN leases' \ DOMAIN leases :
                            /\ leases'[l].unit_id = lease_req.unit_id
                            /\ leases'[l].tenant_id \in DOMAIN tenants'
                            /\ tenants'[leases'[l].tenant_id].email = RequesterEmail(lease_req)
      ]_vars

\* An approve call of a pending request failed after the Lease was added to
\* the session: the request is still pending, its unit vacant, no Tenant made.
FailedApprovalLeftNothing ==
    \E s \in AdminSessions :
        /\ res[s].outcome = "error" /\ res[s].at = "staged" /\ res[s].seen = "pending"
        /\ res[s].request_id \in DOMAIN requests
        /\ requests[res[s].request_id].status = "pending"
        /\ units[requests[res[s].request_id].unit_id].status = "vacant"
        /\ \A t \in DOMAIN tenants : tenants[t].email # RequesterEmail(requests[res[s].request_id])
        /\ Count(DOMAIN leases) = 2

\* C10: approve proceeds on a stored request whatever its status, and every
\* approve call that commits adds a Lease for the request's unit, so two
\* sessions that both loaded the request as pending both add one.
ApproveNeverRefuses ==
    [][\A s \in AdminSessions :
          /\ \A r \in DOMAIN requests :
                ApproveLoad(s, r) =>
                   (sess'[s].pc = "loaded" /\ sess'[s].lease_req = requests[r])
          /\ (sess[s].pc = "staged" /\ res'[s].outcome = "approved" /\ res'[s] # res[s]) =>
                /\ Count(DOMAIN leases') = Count(DOMAIN leases) + 1
                /\ \A l \in DOMAIN leases' \ DOMAIN leases :
                      leases'[l].unit_id = sess[s].lease_req.unit_id
      ]_vars

\* Both sessions loaded the same request as pending, both calls committed, and
\* two Leases made from the request reference its unit.
DoubleAllocation ==
    /\ res[1].outcome = "approved" /\ res[2].outcome = "approved"
    /\ res[1].request_id = res[2].request_id
    /\ res[1].seen = "pending" /\ res[2].seen = "pending"
    /\ res[1].request_id \in DOMAIN requests
    /\ LET lease_req == requests[res[1].request_id] IN
          Count({l \in DOMAIN leases :
                    /\ leases[l].unit_id = lease_req.unit_id
                    /\ leases[l].start_date = lease_req.start_date
                    /\ leases[l].end_date = lease_req.end_date
                    /\ leases[l].monthly_rent = 0}) >= 2

\* the stored identifier of the tenant account n, and of the administrator n
TenantId(n) == TenantWord \o <<Underscore>> \o str(n)

AdminId(n) == UserWord \o <<Underscore>> \o str(n)

\* C11: load_user of "tenant_<n>" gives the tenant account n or no principal,
\* never an administrator; load_user of "user_<n>" gives the administrator n
\* or no principal, never a tenant account.
RestoreByPrefix ==
    [][\A n \in SessionNumbers :
          /\ restore_session(TenantId(n)) =>
                \/ out'.user = Anonymous
                \/ /\ out'.user = [cls |-> "TenantUser", id |-> n]
                   /\ n \in DOMAIN tenant_users
          /\ restore_session(AdminId(n)) =>
                \/ out'.user = Anonymous
                \/ /\ out'.user = [cls |-> "User", id |-> n]
                   /\ n \in DOMAIN users
      ]_vars

\* "tenant_1" was restored as the tenant account 1 while an administrator 1
\* is stored, and a second tenant account exists with no administrator 2.
RestoredTenantOne ==
    /\ out.op = "load_user" /\ out.user_id = TenantId(1)
    /\ out.user = [cls |-> "TenantUser", id |-> 1]
    /\ 1 \in DOMAIN users
    /\ 2 \in DOMAIN tenant_users /\ 2 \notin DOMAIN users

\* C12: load_user of an identifier with no prefix ("<n>") or with a prefix
\* that is neither 'user' nor 'tenant' ("foo_<n>") gives the administrator n
\* if there is one, else the tenant account n if there is one, else no
\* principal.
RestoreFallsBack ==
    [][\A n \in SessionNumbers :
          (restore_session(str(n)) \/ restore_session(FooWord \o <<Underscore>> \o str(n))) =>
             out'.user = IF n \in DOMAIN users THEN [cls |-> "User", id |-> n]
                         ELSE IF n \in DOMAIN tenant_users
                         THEN [cls |-> "TenantUser", id |-> n]
                         ELSE Anonymous
      ]_vars

\* C15: a call refused for a validation error writes nothing.  book_unit with
\* a unit id that is no integer, a date that does not parse or a missing date
\* adds no request; tenant_signup with a missing username, email or password,
\* a confirmation that differs, a password shorter than 6 or a username or
\* email already used adds no tenant account; change_password with a wrong
\* current password, a confirmation that differs or a new password shorter
\* than 6 changes no stored hash.
ValidationWritesNothing ==
    [][/\ \A f \in RefusedBookingForms \cup ValidBookingForms :
             (/\ last'.op = "book_unit"
              /\ \/ int(f.unit_id) = -1
                 \/ f.start_date = <<>> \/ f.end_date = <<>>
                 \/ fromisoformat(f.start_date) = NoDate
                 \/ fromisoformat(f.end_date) = NoDate
              /\ book_unit(current_user, f.unit_id, f.start_date, f.end_date)) =>
                requests' = requests
       /\ \A f \in SignupForms :
             (/\ last'.op = "tenant_signup"
              /\ \/ f.username = "" \/ f.email = "" \/ f.password = ""
                 \/ f.password # f.confirm_password
                 \/ Len(f.password) < 6
                 \/ \E t \in DOMAIN tenant_users :
                       \/ tenant_users[t].username = f.username
                       \/ tenant_users[t].email = f.email
              /\ tenant_signup(f.username, f.email, f.password, f.confirm_password, f.phone)) =>
                tenant_users' = tenant_users
       /\ \A f \in PasswordForms :
             (/\ last'.op = "change_password"
              /\ current_user # Anonymous
              /\ \/ ~check_password(current_user, f.current)
                 \/ f.new # f.confirm
                 \/ Len(f.new) < 6
              /\ change_password(current_user, f.current, f.new, f.confirm)) =>
                (users' = users /\ tenant_users' = tenant_users)
      ]_vars

\* A logged-in principal's change to a password of five characters was
\* refused, with a signed-up account and a booking request on file.
RefusedShortPassword ==
    /\ last.op = "change_password"
    /\ last.msg = "New password must be at least 6 characters."
    /\ cookie # NoCookie
    /\ \E t \in DOMAIN tenant_users : tenant_users[t].username = "alice"
    /\ requests # <<>>
    /\ users = SeedUsers

\* C18: login and admin_autologin establish an administrator session only
\* with a password that verifies against the stored hash of that
\* administrator, so the old password opens no session once it was changed.
SessionNeedsStoredPassword ==
    [][\A pw \in Passwords :
          (/\ \/ \E username \in Usernames : login(username, pw)
              \/ admin_autologin(pw)
           /\ last'.msg \in {"Logged in.", "ok"}) =>
             \E u \in DOMAIN users :
                /\ cookie' = AdminId(u)
                /\ check_password_hash(users[u].password_hash, pw)
      ]_vars

\* C19: a change_password that succeeds stores the new password's hash in the
\* account of the current principal and leaves every other account as it is.
PasswordChangeIsOwn ==
    [][\A f \in PasswordForms :
          (/\ change_password(current_user, f.current, f.new, f.confirm)
           /\ last'.msg = "Password changed successfully.") =>
             LET who == current_user IN
             IF who.cls = "TenantUser"
             THEN /\ users' = users
                  /\ check_password_hash(tenant_users'[who.id].password_hash, f.new)
                  /\ \A t \in DOMAIN tenant_users \ {who.id} : tenant_users'[t] = tenant_users[t]
             ELSE /\ tenant_users' = tenant_users
                  /\ check_password_hash(users'[who.id].password_hash, f.new)
                  /\ \A u \in DOMAIN users \ {who.id} : users'[u] = users[u]
      ]_vars

\* the amounts of the payments 1..n that name the lease l, added up
RECURSIVE PaidUpTo(_, _)
PaidUpTo(l, n) ==
    IF n = 0 THEN 0
    ELSE PaidUpTo(l, n - 1)
            + (IF n \in DOMAIN payments /\ payments[n].lease_id = l
               THEN payments[n].amount ELSE 0)

PaidOn(l) == PaidUpTo(l, NextId(payments) - 1)

\* C13: the dashboard has a balance entry for exactly the leases with a start
\* date, and for such a lease months = max(0, (year - start year) * 12 +
\* (month - start month)), expected = months * monthly rent, paid = the sum
\* of the lease's payments and balance = expected - paid, whatever the day of
\* the month and the end date; three months, rent 5000 and 8000 paid give
\* 15000, 8000 and 7000.
BalancesAsStated ==
    [][out'.op = "dashboard" =>
          \A who \in Principals, today \in Todays, order \in QueryOrders(DOMAIN leases) :
             (who # Anonymous /\ today = out'.today /\ dashboard(who, today, order)) =>
                /\ DOMAIN out'.balances = {l \in DOMAIN leases : leases[l].start_date # NoDate}
                /\ \A l \in DOMAIN out'.balances :
                      LET start == leases[l].start_date
                          m == (today[1] - start[1]) * 12 + (today[2] - start[2])
                          months == IF m < 0 THEN 0 ELSE m
                          expected == months * leases[l].monthly_rent
                      IN /\ out'.balances[l].expected = expected
                         /\ out'.balances[l].paid = PaidOn(l)
                         /\ out'.balances[l].balance = expected - PaidOn(l)
                         /\ (m = 3 /\ leases[l].monthly_rent = 5000 /\ PaidOn(l) = 8000) =>
                               out'.balances[l] =
                                  [expected |-> 15000, paid |-> 8000, balance |-> 7000]
      ]_vars

\* The dashboard of a day in the third month after the start of lease 1, not
\* the day of the month of its start, reported 15000, 8000 and 7000 for it and
\* nothing for a lease without a start date.
BalanceOfExample ==
    /\ out.op = "dashboard"
    /\ 1 \in DOMAIN out.balances
    /\ out.balances[1] = [expected |-> 15000, paid |-> 8000, balance |-> 7000]
    /\ out.today[3] < leases[1].start_date[3]
    /\ \E l \in DOMAIN leases : leases[l].start_date = NoDate /\ l \notin DOMAIN out.balances

\* C14: for every unit the dashboard's tenant name and rent are those of the
\* lease with the highest id among the leases of the unit, in whatever order
\* the leases came; a unit without lease has no tenant name and the rent 0.
LatestLeaseReported ==
    [][out'.op = "dashboard" =>
          \A u \in DOMAIN units :
             LET of_unit == {l \in DOMAIN leases : leases[l].unit_id = u} IN
             IF of_unit = {}
             THEN u \notin DOMAIN out'.unit_tenants /\ out'.unit_latest_rent[u] = 0
             ELSE LET latest == leases[Max(of_unit)] IN
                  /\ u \in DOMAIN out'.unit_tenants
                  /\ out'.unit_tenants[u] =
                        (IF latest.tenant_id \in DOMAIN tenants
                         THEN tenants[latest.tenant_id].name ELSE NoName)
                  /\ out'.unit_latest_rent[u] = latest.monthly_rent
      ]_vars

\* C17: lease_create, lease_edit, lease_delete, tenant_create, tenant_edit,
\* tenant_delete and payment_create, called by an anonymous caller or by a
\* tenant principal, create, change and delete no Lease, Tenant, Payment or
\* Unit.
RecordsRoleGated ==
    [][\A who \in Visitors :
          (\/ \E f \in DashLeaseForms :
                 \/ lease_create(who, f.unit_id, f.tenant_id, f.start_date, f.end_date,
                                 f.monthly_rent)
                 \/ \E l \in EditedLeaseIds :
                       lease_edit(who, l, f.unit_id, f.tenant_id, f.start_date, f.end_date,
                                  f.monthly_rent)
           \/ \E l \in DeletedLeaseIds : lease_delete(who, l)
           \/ \E f \in TenantForms :
                 \/ tenant_create(who, f.name, f.phone, f.email)
                 \/ \E t \in EditedTenantIds : tenant_edit(who, t, f.name, f.phone, f.email)
           \/ \E t \in DeletedTenantIds : tenant_delete(who, t)
           \/ \E f \in RentPaymentForms : payment_create(who, f.lease_id, f.amount))
          => (leases' = leases /\ tenants' = tenants /\ payments' = payments /\ units' = units)
      ]_vars

\* what an init-db run reports
Seeded == last'.op = "init-db" /\ last'.code = 0

\* the seeded rows apart from the emergency contacts: four properties, four
\* units one per property, two tenants, two leases whose units are the only
\* occupied ones, one open maintenance request, the administrator "admin" and
\* one tenant account
SeededRows ==
    /\ Count(DOMAIN properties') = 4
    /\ Count(DOMAIN units') = 4
    /\ {units'[u].property_id : u \in DOMAIN units'} = DOMAIN properties'
    /\ Count(DOMAIN tenants') = 2
    /\ Count(DOMAIN leases') = 2
    /\ {leases'[l].unit_id : l \in DOMAIN leases'} =
          {u \in DOMAIN units' : units'[u].status = "occupied"}
    /\ Count({leases'[l].unit_id : l \in DOMAIN leases'}) = 2
    /\ Count(DOMAIN maintenance_requests') = 1
    /\ \A m \in DOMAIN maintenance_requests' : maintenance_requests'[m].status = "open"
    /\ Count(DOMAIN users') = 1
    /\ \A u \in DOMAIN users' : users'[u].username = "admin"
    /\ Count(DOMAIN tenant_users') = 1

\* a later run leaves every table as it was
RerunChangesNothing ==
    (Seeded /\ properties # <<>>) =>
        UNCHANGED <<db, accounts, payments, properties, maintenance_requests,
                    emergency_contacts>>

\* C16 as stated: init-db on an empty store leaves four properties, four units
\* one per property, two tenants, two leases on the only occupied units, one
\* open maintenance request, five emergency contacts, the administrator
\* "admin" and one tenant account; a later run changes nothing.
SeedWithFiveContacts ==
    [][ /\ (Seeded /\ properties = <<>>) =>
              (SeededRows /\ Count(DOMAIN emergency_contacts') = 5)
        /\ RerunChangesNothing ]_vars

\* C16 amended: the same, with four emergency contacts, one for each unit.
SeedWithFourContacts ==
    [][ /\ (Seeded /\ properties = <<>>) =>
              /\ SeededRows
              /\ Count(DOMAIN emergency_contacts') = 4
              /\ {emergency_contacts'[c].unit_identifier : c \in DOMAIN emergency_contacts'}
                    = {<<"Room", units'[u].number>> : u \in DOMAIN units'}
        /\ RerunChangesNothing ]_vars

\* init-db has run again on a store it had seeded and that signed up a tenant
\* account since
SeededTwice ==
    /\ last.op = "init-db"
    /\ Count(DOMAIN tenant_users) = 2
    /\ Count(DOMAIN properties) = 4
    /\ Count(DOMAIN emergency_contacts) = 4

====
